---- MODULE Spec2Model ----
(***************************************************************************)
(* Gallon Logger (src/App.tsx): the tank inventory ledger of a spray rig.  *)
(*                                                                         *)
(* The React component's state hooks are the variables; every event        *)
(* handler, effect and store callback is one action.  A handler sees the   *)
(* state of the latest render.  The Firestore collection is `store`; the   *)
(* snapshots that the onSnapshot listener has not yet delivered are the    *)
(* queue `inflight`.                                                       *)
(*                                                                         *)
(* Numbers.  Volumes are integers counting thousandths of a gallon, so     *)
(* that toFixed(2) is a real rounding (to a multiple of Eps).  Arithmetic  *)
(* is exact decimal arithmetic; binary floating point error is not         *)
(* modelled.  NaN is the distinguished value NaN.  Ratios (ozPerGal) count *)
(* ten-thousandths of an ounce per gallon, total ounces are whole ounces.  *)
(*                                                                         *)
(* Text.  A string is a sequence of tokens; the token " " is white space,  *)
(* every other token is a word.                                            *)
(***************************************************************************)
EXTENDS Integers, Sequences, FiniteSets, TLC

VARIABLES
    db,                 \* Firestore handle present (useState db, line 23)
    userId,             \* operator id or NoUser (line 25)
    isAuthReady,        \* line 26
    store,              \* the gallon_logs collection, ordered by timestamp asc
    nextId,             \* next document id the store assigns
    inflight,           \* snapshots queued for the onSnapshot callback
    logs,               \* line 27: last delivered snapshot, newest first
    startingGallons,    \* line 30: configured capacity
    gallonsLeft,        \* line 32
    gallonsUsedOnRoad,  \* line 31: staged volume used
    gallonsToRefill,    \* line 33: staged refill amount
    chemicalMix,        \* line 36: staged mix
    currentChemical,    \* line 37: chemical being entered
    selectedRoad,       \* line 43: staged road
    weather,            \* line 47
    temperature,        \* line 48
    windDirection,      \* line 49
    windSpeed,          \* line 50
    status,             \* line 53: kind of the last status message
    showConfirmModal,   \* line 54
    resetPc,            \* position of confirmResetHistory: idle, deleting, failed
    toDelete            \* ids whose deleteDoc has not completed yet

vars == <<db, userId, isAuthReady, store, nextId, inflight, logs, startingGallons,
          gallonsLeft, gallonsUsedOnRoad, gallonsToRefill, chemicalMix,
          currentChemical, selectedRoad, weather, temperature, windDirection,
          windSpeed, status, showConfirmModal, resetPc, toDelete>>

authVars == <<db, userId, isAuthReady>>
storeVars == <<store, nextId, inflight>>
derivedVars == <<logs, startingGallons, gallonsLeft>>
mixVars == <<chemicalMix, currentChemical>>
condVars == <<weather, temperature, windDirection, windSpeed>>
resetVars == <<showConfirmModal, resetPc, toDelete>>

----------------------------------------------------------------------------
(* Bounds of the model *)

\* documents the store assigns an id to in one behaviour
MaxId == 2
\* snapshots queued for the listener
MaxInFlight == 2
\* chemicals in the staged mix
MaxMix == 1

----------------------------------------------------------------------------
(* Numbers and text *)

\* thousandths of a gallon in n gallons
Gal(n) == n * 1000

\* the refill tolerance 0.01 gal; also the step of toFixed(2)
Eps == 10

\* Number.NaN, as produced by parseFloat of an empty or non-numeric field
NaN == -999999999

IsNaN(x) == x = NaN

\* JavaScript truthiness of a number
Truthy(x) == ~IsNaN(x) /\ x # 0

\* x || d
OrElse(x, d) == IF Truthy(x) THEN x ELSE d

Min(a, b) == IF a <= b THEN a ELSE b

\* parseFloat(x.toFixed(2)): the nearest hundredth, a tie away from zero
ToFixed2(x) == IF x >= 0 THEN ((2 * x + Eps) \div (2 * Eps)) * Eps
               ELSE -(((2 * (-x) + Eps) \div (2 * Eps)) * Eps)

NoText == <<>>
RefillLabel == <<"TANK REFILL">>
NoUser == "null"

RECURSIVE TrimStart(_)
TrimStart(s) == IF s # <<>> /\ Head(s) = " " THEN TrimStart(Tail(s)) ELSE s

RECURSIVE TrimEnd(_)
TrimEnd(s) == IF s # <<>> /\ s[Len(s)] = " " THEN TrimEnd(SubSeq(s, 1, Len(s) - 1)) ELSE s

\* String.prototype.trim
Trim(s) == TrimEnd(TrimStart(s))

RECURSIVE Reverse(_)
Reverse(s) == IF s = <<>> THEN <<>> ELSE Append(Reverse(Tail(s)), Head(s))

Last(s) == s[Len(s)]

----------------------------------------------------------------------------
(* Inputs the operator can enter *)

DefaultCapacity == Gal(600)

\* parseFloat of the Total Capacity field
CapacityInputs == {0, Gal(600), Gal(800) + 8}

\* parseFloat(..) || 0 of the Gal Used field
UsedInputs == {Gal(400) + 2}

\* parseFloat(..) || 0 of the Refill Amount field
RefillInputs == {Eps, Gal(150), Gal(500)}

RoadInputs == {<<" ">>, <<"Elk">>}

WeatherInputs == {<<" ", "Sunny">>}

TemperatureInputs == {0}

WindSpeedInputs == {NaN}

WindDirectionInputs == {"North"}

ChemicalNames == {<<"Milestone">>}

OzInputs == {120}

OperatorIds == {NoUser, "op1"}

----------------------------------------------------------------------------
(* Initial state: the useState initial values, lines 23-54 *)

Init ==
    /\ db = FALSE
    /\ userId = NoUser
    /\ isAuthReady = FALSE
    /\ store = <<>>
    /\ nextId = 1
    /\ inflight = <<>>
    /\ logs = <<>>
    /\ startingGallons = DefaultCapacity
    /\ gallonsLeft = DefaultCapacity
    /\ gallonsUsedOnRoad = 0
    /\ gallonsToRefill = 0
    /\ chemicalMix = <<>>
    /\ currentChemical = [name |-> NoText, totalOz |-> 0]
    /\ selectedRoad = NoText
    /\ weather = NoText
    /\ temperature = 70
    /\ windDirection = "South West"
    /\ windSpeed = 5
    /\ status = "Initializing"
    /\ showConfirmModal = FALSE
    /\ resetPc = "idle"
    /\ toDelete = {}

----------------------------------------------------------------------------
(* Mix calculator *)

\* a / b rounded to the nearest integer, a >= 0, b > 0, a tie upwards
RoundDiv(a, b) == IF 2 * (a % b) >= b THEN (a \div b) + 1 ELSE a \div b

CalculateOzPerGal_Magnitude(totalOz, tankVolume) ==
    IF tankVolume # 0
    THEN [text |-> TRUE,
          val |-> RoundDiv(totalOz * 10000 * 1000,
                           IF tankVolume < 0 THEN -tankVolume ELSE tankVolume)]
    ELSE [text |-> FALSE, val |-> 0]

\* calculateOzPerGal: (totalOz / tankVolume).toFixed(4), a string, or the number 0
CalculateOzPerGal(totalOz, tankVolume) ==
    IF tankVolume > 0
    THEN [text |-> TRUE, val |-> RoundDiv(totalOz * 10000 * 1000, tankVolume)]
    ELSE [text |-> FALSE, val |-> 0]

RecomputeMix_AgainstDefault(mix, tankVolume) ==
    [i \in 1..Len(mix) |->
        [mix[i] EXCEPT !.ozPerGal = CalculateOzPerGal(mix[i].totalOz, DefaultCapacity)]]

RecomputeMix_Stale(mix, tankVolume) == mix

\* the effect of lines 207-214, run when startingGallons has changed
RecomputeMix(mix, tankVolume) ==
    [i \in 1..Len(mix) |->
        [mix[i] EXCEPT !.ozPerGal = CalculateOzPerGal(mix[i].totalOz, tankVolume)]]

----------------------------------------------------------------------------
(* The store and its listener *)

\* the history listener effect subscribes only with a handle and an operator
Subscribed(d, u) == d /\ u # NoUser

\* the store notifies the listener of its new contents
Notify(q, contents) == Append(q, contents)

\* the effect of lines 104-135 re-runs when startingGallons (or db, userId)
\* changes: it unsubscribes, dropping undelivered snapshots, and the new
\* listener fires once with the current contents
Resubscribe(d, u, contents) == IF Subscribed(d, u) THEN <<contents>> ELSE <<>>

\* weatherConditions: {} of a refill; its absent fields read as undefined,
\* which every reader treats as falsy
EmptyConditions ==
    [weather |-> NoText, temperature |-> NaN, windDirection |-> "", windSpeed |-> NaN]

----------------------------------------------------------------------------
(* Initialisation and identity handshake, lines 65-101 *)

\* the mount effect: initializeApp, getFirestore, setDb
InitFirebase ==
    /\ ~db
    /\ db' = TRUE
    /\ inflight' = Resubscribe(TRUE, userId, store)
    /\ UNCHANGED <<userId, isAuthReady, store, nextId, derivedVars, gallonsUsedOnRoad,
                   gallonsToRefill, mixVars, selectedRoad, condVars, status, resetVars>>

\* the onAuthStateChanged callback, after the sign-in it awaits
AuthStateChanged ==
    /\ db
    /\ ~isAuthReady
    /\ \E uid \in OperatorIds :
        /\ userId' = uid
        /\ inflight' = Resubscribe(db, uid, store)
    /\ isAuthReady' = TRUE
    /\ status' = "Ready"
    /\ UNCHANGED <<db, store, nextId, derivedVars, gallonsUsedOnRoad, gallonsToRefill,
                   mixVars, selectedRoad, condVars, resetVars>>

----------------------------------------------------------------------------
(* Form fields *)

\* Road Name onChange, lines 739-743, and handleRoadSelect
SetRoad ==
    /\ \E r \in RoadInputs : selectedRoad' = r /\ r # selectedRoad
    /\ UNCHANGED <<authVars, storeVars, derivedVars, gallonsUsedOnRoad, gallonsToRefill,
                   mixVars, condVars, status, resetVars>>

\* Road Name onChange, lines 739-743: the field takes any text, the label of
\* the refill events included
TypeRefillLabel ==
    /\ selectedRoad # RefillLabel
    /\ selectedRoad' = RefillLabel
    /\ UNCHANGED <<authVars, storeVars, derivedVars, gallonsUsedOnRoad, gallonsToRefill,
                   mixVars, condVars, status, resetVars>>

\* Gal Used onChange, line 766
SetGallonsUsed ==
    /\ \E g \in UsedInputs : gallonsUsedOnRoad' = OrElse(g, 0) /\ gallonsUsedOnRoad' # gallonsUsedOnRoad
    /\ UNCHANGED <<authVars, storeVars, derivedVars, gallonsToRefill, mixVars,
                   selectedRoad, condVars, status, resetVars>>

\* Refill Amount onChange, line 588
SetGallonsToRefill ==
    /\ \E g \in RefillInputs : gallonsToRefill' = OrElse(g, 0) /\ gallonsToRefill' # gallonsToRefill
    /\ UNCHANGED <<authVars, storeVars, derivedVars, gallonsUsedOnRoad, mixVars,
                   selectedRoad, condVars, status, resetVars>>

SetWeather ==
    /\ \E w \in WeatherInputs : weather' = w /\ w # weather
    /\ UNCHANGED <<authVars, storeVars, derivedVars, gallonsUsedOnRoad, gallonsToRefill,
                   mixVars, selectedRoad, temperature, windDirection, windSpeed, status,
                   resetVars>>

SetTemperature ==
    /\ \E t \in TemperatureInputs : temperature' = t /\ t # temperature
    /\ UNCHANGED <<authVars, storeVars, derivedVars, gallonsUsedOnRoad, gallonsToRefill,
                   mixVars, selectedRoad, weather, windDirection, windSpeed, status,
                   resetVars>>

SetWindDirection ==
    /\ \E d \in WindDirectionInputs : windDirection' = d /\ d # windDirection
    /\ UNCHANGED <<authVars, storeVars, derivedVars, gallonsUsedOnRoad, gallonsToRefill,
                   mixVars, selectedRoad, weather, temperature, windSpeed, status,
                   resetVars>>

SetWindSpeed ==
    /\ \E w \in WindSpeedInputs : windSpeed' = w /\ w # windSpeed
    /\ UNCHANGED <<authVars, storeVars, derivedVars, gallonsUsedOnRoad, gallonsToRefill,
                   mixVars, selectedRoad, weather, temperature, windDirection, status,
                   resetVars>>

\* chemical search onChange, lines 623-627, and handleChemicalSelect
SetChemicalName ==
    /\ \E n \in ChemicalNames :
        /\ n # currentChemical.name
        /\ currentChemical' = [currentChemical EXCEPT !.name = n]
    /\ UNCHANGED <<authVars, storeVars, derivedVars, gallonsUsedOnRoad, gallonsToRefill,
                   chemicalMix, selectedRoad, condVars, status, resetVars>>

\* chemical search onChange, lines 623-627: the field takes any text, white
\* space alone included
TypeBlankChemicalName ==
    /\ currentChemical.name # <<" ">>
    /\ currentChemical' = [currentChemical EXCEPT !.name = <<" ">>]
    /\ UNCHANGED <<authVars, storeVars, derivedVars, gallonsUsedOnRoad, gallonsToRefill,
                   chemicalMix, selectedRoad, condVars, status, resetVars>>

\* Oz onChange, line 650
SetChemicalOz ==
    /\ \E z \in OzInputs :
        /\ z # currentChemical.totalOz
        /\ currentChemical' = [currentChemical EXCEPT !.totalOz = z]
    /\ UNCHANGED <<authVars, storeVars, derivedVars, gallonsUsedOnRoad, gallonsToRefill,
                   chemicalMix, selectedRoad, condVars, status, resetVars>>

\* handleChemicalAdd, lines 184-201
HandleChemicalAdd ==
    /\ IF currentChemical.name = NoText \/ IsNaN(currentChemical.totalOz)
          \/ currentChemical.totalOz <= 0
       THEN /\ status' = "InvalidChemical"
            /\ UNCHANGED mixVars
       ELSE /\ Len(chemicalMix) < MaxMix
            /\ chemicalMix' = Append(chemicalMix,
                   [name |-> currentChemical.name,
                    totalOz |-> currentChemical.totalOz,
                    ozPerGal |-> CalculateOzPerGal(currentChemical.totalOz, startingGallons)])
            /\ currentChemical' = [name |-> NoText, totalOz |-> 0]
            /\ UNCHANGED status
    /\ UNCHANGED <<authVars, storeVars, derivedVars, gallonsUsedOnRoad, gallonsToRefill,
                   selectedRoad, condVars, resetVars>>

\* handleChemicalRemove, lines 203-205
HandleChemicalRemove ==
    /\ \E i \in 1..Len(chemicalMix) :
        chemicalMix' = [j \in 1..(Len(chemicalMix) - 1) |->
                           IF j < i THEN chemicalMix[j] ELSE chemicalMix[j + 1]]
    /\ UNCHANGED <<authVars, storeVars, derivedVars, gallonsUsedOnRoad, gallonsToRefill,
                   currentChemical, selectedRoad, condVars, status, resetVars>>

----------------------------------------------------------------------------
(* Ledger: refill, lines 217-264 *)

NotReady_AuthOnly == ~isAuthReady

\* line 218 and line 291: the not-ready guard
NotReady == ~isAuthReady \/ ~db \/ userId = NoUser

\* line 223
CurrentTotal(gallonsAdded) == gallonsLeft + gallonsAdded

RefillNewGallonsLeft_Uncapped(gallonsAdded) == CurrentTotal(gallonsAdded)

\* line 224
RefillNewGallonsLeft(gallonsAdded) == Min(startingGallons, CurrentTotal(gallonsAdded))

\* line 225
ActualAdded(gallonsAdded) == RefillNewGallonsLeft(gallonsAdded) - gallonsLeft

TankFull_NoTolerance(gallonsAdded) == ActualAdded(gallonsAdded) <= 0

\* line 227
TankFull(gallonsAdded) == ActualAdded(gallonsAdded) <= Eps

\* the document of lines 234-242
RefillDoc(id, gallonsAdded) ==
    [id |-> id,
     roadName |-> RefillLabel,
     gallonsUsed |-> -ActualAdded(gallonsAdded),
     gallonsLeft |-> ToFixed2(RefillNewGallonsLeft(gallonsAdded)),
     initialTankVolume |-> startingGallons,
     chemicalMix |-> <<>>,
     weatherConditions |-> EmptyConditions]

RefillCapped_Never(gallonsAdded) == FALSE

\* line 244: the message says "capped"
RefillCapped(gallonsAdded) == RefillNewGallonsLeft(gallonsAdded) < CurrentTotal(gallonsAdded)

AddDocOk_Prepending(doc) ==
    /\ nextId <= MaxId
    /\ Len(inflight) < MaxInFlight
    /\ store' = <<doc>> \o store
    /\ nextId' = nextId + 1
    /\ inflight' = Notify(inflight, store')

AddDocOk_Recomputing(doc) ==
    /\ nextId <= MaxId
    /\ Len(inflight) < MaxInFlight
    /\ store' = Append([i \in 1..Len(store) |->
                            [store[i] EXCEPT !.chemicalMix =
                                RecomputeMix(store[i].chemicalMix, startingGallons)]],
                        doc)
    /\ nextId' = nextId + 1
    /\ inflight' = Notify(inflight, store')

\* addDoc accepted: the store assigns the id, orders the document last and
\* notifies the listener
AddDocOk(doc) ==
    /\ nextId <= MaxId
    /\ Len(inflight) < MaxInFlight
    /\ store' = Append(store, doc)
    /\ nextId' = nextId + 1
    /\ inflight' = Notify(inflight, store')

AddDocFails_Notifying ==
    /\ Len(inflight) < MaxInFlight
    /\ inflight' = Notify(inflight, store)
    /\ UNCHANGED <<store, nextId>>

\* addDoc rejected: the promise rejects and nothing is stored
AddDocFails == UNCHANGED storeVars

\* line 259
InvalidRefillAmount(gallons) == IsNaN(gallons) \/ gallons <= 0

\* handleRefill and the performRefill it calls
HandleRefill ==
    /\ LET gallons == gallonsToRefill IN
        IF InvalidRefillAmount(gallons)
        THEN /\ status' = "InvalidRefill"
             /\ UNCHANGED <<storeVars, gallonsToRefill>>
        ELSE IF NotReady
        THEN /\ status' = "StillInitializing"
             /\ UNCHANGED <<storeVars, gallonsToRefill>>
        ELSE IF TankFull(gallons)
        THEN /\ status' = "TankFull"
             /\ UNCHANGED <<storeVars, gallonsToRefill>>
        ELSE \/ /\ AddDocOk(RefillDoc(nextId, gallons))
                /\ status' = IF RefillCapped(gallons) THEN "RefilledCapped" ELSE "Refilled"
                /\ gallonsToRefill' = 0
             \/ /\ AddDocFails
                /\ status' = "RefillSaveError"
                /\ UNCHANGED gallonsToRefill
    /\ UNCHANGED <<authVars, derivedVars, gallonsUsedOnRoad, mixVars, selectedRoad,
                   condVars, resetVars>>

----------------------------------------------------------------------------
(* Ledger: application, lines 267-324 *)

\* line 270
EmptyRoad == selectedRoad = NoText \/ Trim(selectedRoad) = NoText

\* line 274
NonPositiveVolume == IsNaN(gallonsUsedOnRoad) \/ gallonsUsedOnRoad <= 0

InsufficientInventory_AgainstCapacity == gallonsUsedOnRoad > startingGallons

\* line 278
InsufficientInventory == gallonsUsedOnRoad > gallonsLeft

\* line 282
EmptyChemicalMix == Len(chemicalMix) = 0

IncompleteConditions_WindUnchecked ==
    \/ Trim(weather) = NoText
    \/ ~Truthy(temperature)
    \/ windDirection = ""

\* line 286
IncompleteConditions ==
    \/ Trim(weather) = NoText
    \/ ~Truthy(temperature)
    \/ windDirection = ""
    \/ ~Truthy(windSpeed)

\* line 296
NewGallonsLeft == gallonsLeft - gallonsUsedOnRoad

ApplicationDoc_DefaultCapacity(id) ==
    [id |-> id,
     roadName |-> selectedRoad,
     gallonsUsed |-> ToFixed2(gallonsUsedOnRoad),
     gallonsLeft |-> ToFixed2(NewGallonsLeft),
     initialTankVolume |-> DefaultCapacity,
     chemicalMix |-> chemicalMix,
     weatherConditions |->
        [weather |-> Trim(weather),
         temperature |-> temperature,
         windDirection |-> windDirection,
         windSpeed |-> windSpeed]]

\* the document of lines 300-313
ApplicationDoc(id) ==
    [id |-> id,
     roadName |-> selectedRoad,
     gallonsUsed |-> ToFixed2(gallonsUsedOnRoad),
     gallonsLeft |-> ToFixed2(NewGallonsLeft),
     initialTankVolume |-> startingGallons,
     chemicalMix |-> chemicalMix,
     weatherConditions |->
        [weather |-> Trim(weather),
         temperature |-> temperature,
         windDirection |-> windDirection,
         windSpeed |-> windSpeed]]

ApplicationVerdict_ReadyFirst ==
    IF NotReady THEN "StillInitializing"
    ELSE IF EmptyRoad THEN "SelectRoad"
    ELSE IF NonPositiveVolume THEN "InvalidGallons"
    ELSE IF InsufficientInventory THEN "Exceeds"
    ELSE IF EmptyChemicalMix THEN "NoChemicals"
    ELSE IF IncompleteConditions THEN "IncompleteConditions"
    ELSE "ok"

\* the kind of the first validation that fails, or "ok"
ApplicationVerdict ==
    IF EmptyRoad THEN "SelectRoad"
    ELSE IF NonPositiveVolume THEN "InvalidGallons"
    ELSE IF InsufficientInventory THEN "Exceeds"
    ELSE IF EmptyChemicalMix THEN "NoChemicals"
    ELSE IF IncompleteConditions THEN "IncompleteConditions"
    ELSE IF NotReady THEN "StillInitializing"
    ELSE "ok"

LogApplication_ClearingMix ==
    /\ IF ApplicationVerdict # "ok"
       THEN /\ status' = ApplicationVerdict
            /\ UNCHANGED <<storeVars, gallonsUsedOnRoad, selectedRoad, mixVars>>
       ELSE \/ /\ AddDocOk(ApplicationDoc(nextId))
               /\ status' = "Logged"
               /\ gallonsUsedOnRoad' = 0
               /\ selectedRoad' = NoText
               /\ chemicalMix' = <<>>
               /\ UNCHANGED currentChemical
            \/ /\ AddDocFails
               /\ status' = "SaveError"
               /\ UNCHANGED <<gallonsUsedOnRoad, selectedRoad, mixVars>>
    /\ UNCHANGED <<authVars, derivedVars, gallonsToRefill, condVars, resetVars>>

\* logApplication
LogApplication ==
    /\ IF ApplicationVerdict # "ok"
       THEN /\ status' = ApplicationVerdict
            /\ UNCHANGED <<storeVars, gallonsUsedOnRoad, selectedRoad>>
       ELSE \/ /\ AddDocOk(ApplicationDoc(nextId))
               /\ status' = "Logged"
               /\ gallonsUsedOnRoad' = 0
               /\ selectedRoad' = NoText
            \/ /\ AddDocFails
               /\ status' = "SaveError"
               /\ UNCHANGED <<gallonsUsedOnRoad, selectedRoad>>
    /\ UNCHANGED <<authVars, derivedVars, gallonsToRefill, mixVars, condVars, resetVars>>

----------------------------------------------------------------------------
(* Derived state: the onSnapshot callback, lines 109-128 *)

DerivedGallonsLeft_Incremental(fetchedLogs, configured) ==
    IF fetchedLogs # <<>> THEN gallonsLeft - Last(fetchedLogs).gallonsUsed ELSE configured

\* lines 118-123; startingGallons is the value the listener's closure holds
DerivedGallonsLeft(fetchedLogs, configured) ==
    IF fetchedLogs # <<>> THEN Last(fetchedLogs).gallonsLeft ELSE configured

DerivedCapacity_FirstEvent(fetchedLogs, configured) ==
    IF fetchedLogs # <<>> THEN Head(fetchedLogs).initialTankVolume ELSE configured

\* lines 125-127
DerivedCapacity(fetchedLogs, configured) ==
    IF fetchedLogs # <<>> THEN Last(fetchedLogs).initialTankVolume ELSE configured

\* the predicate of logs.find, line 139
IsAppliedLog(log) == log.roadName # RefillLabel /\ log.weatherConditions.weather # NoText

\* logs.find: the index of the first match, 0 when there is none
RECURSIVE FindFrom(_, _)
FindFrom(ls, i) ==
    IF i > Len(ls) THEN 0
    ELSE IF IsAppliedLog(ls[i]) THEN i
    ELSE FindFrom(ls, i + 1)

HasLastApplied_Never(ls) == FALSE

\* lastAppliedConditions, lines 138-149: whether a log qualifies, and its conditions
HasLastApplied(ls) == FindFrom(ls, 1) # 0

LastAppliedConditions(ls) == ls[FindFrom(ls, 1)].weatherConditions

Deliver_Discarding ==
    /\ inflight # <<>>
    /\ inflight' = Tail(inflight)
    /\ UNCHANGED <<authVars, store, nextId, derivedVars, gallonsUsedOnRoad, gallonsToRefill,
                   mixVars, selectedRoad, condVars, status, resetVars>>

\* delivery of the oldest queued snapshot: the callback, the
\* lastAppliedConditions memo that the new logs array re-runs, and the
\* effects that depend on startingGallons
Deliver ==
    /\ inflight # <<>>
    /\ LET fetchedLogs == Head(inflight)
           newLogs == Reverse(fetchedLogs)
           newCapacity == DerivedCapacity(fetchedLogs, startingGallons)
       IN  /\ logs' = newLogs
           /\ gallonsLeft' = DerivedGallonsLeft(fetchedLogs, startingGallons)
           /\ startingGallons' = newCapacity
           /\ IF HasLastApplied(newLogs)
              THEN LET c == LastAppliedConditions(newLogs) IN
                   /\ weather' = c.weather
                   /\ temperature' = OrElse(c.temperature, 70)
                   /\ windDirection' = (IF c.windDirection = "" THEN "South West"
                                        ELSE c.windDirection)
                   /\ windSpeed' = OrElse(c.windSpeed, 5)
              ELSE UNCHANGED condVars
           /\ IF newCapacity # startingGallons
              THEN /\ chemicalMix' = RecomputeMix(chemicalMix, newCapacity)
                   /\ inflight' = Resubscribe(db, userId, store)
              ELSE /\ UNCHANGED chemicalMix
                   /\ inflight' = Tail(inflight)
    /\ UNCHANGED <<authVars, store, nextId, gallonsUsedOnRoad, gallonsToRefill,
                   currentChemical, selectedRoad, status, resetVars>>

----------------------------------------------------------------------------
(* Total Capacity onChange, lines 574-578 *)

\* line 575
ParsedCapacity(v) == OrElse(v, Gal(1))

ClampedGallonsLeft_Unclamped(val, prev) == prev

\* line 577
ClampedGallonsLeft(val, prev) == Min(val, prev)

SetCapacity ==
    /\ \E v \in CapacityInputs :
        LET val == ParsedCapacity(v) IN
        /\ startingGallons' = val
        /\ gallonsLeft' = ClampedGallonsLeft(val, gallonsLeft)
        /\ IF val # startingGallons
           THEN /\ chemicalMix' = RecomputeMix(chemicalMix, val)
                /\ inflight' = Resubscribe(db, userId, store)
           ELSE UNCHANGED <<chemicalMix, inflight>>
    /\ UNCHANGED <<authVars, store, nextId, logs, gallonsUsedOnRoad, gallonsToRefill,
                   currentChemical, selectedRoad, condVars, status, resetVars>>

\* the field has no minimum: a capacity below zero can be typed
NegativeCapacity == -Gal(200)

\* Total Capacity onChange with a negative capacity typed
TypeNegativeCapacity ==
    /\ LET val == ParsedCapacity(NegativeCapacity) IN
        /\ startingGallons' = val
        /\ gallonsLeft' = ClampedGallonsLeft(val, gallonsLeft)
        /\ IF val # startingGallons
           THEN /\ chemicalMix' = RecomputeMix(chemicalMix, val)
                /\ inflight' = Resubscribe(db, userId, store)
           ELSE UNCHANGED <<chemicalMix, inflight>>
    /\ UNCHANGED <<authVars, store, nextId, logs, gallonsUsedOnRoad, gallonsToRefill,
                   currentChemical, selectedRoad, condVars, status, resetVars>>

----------------------------------------------------------------------------
(* Reset, lines 461-499 and the modal of lines 506-532 *)

\* handleRestartJob
HandleRestartJob ==
    /\ IF NotReady
       THEN status' = "InitializingRestart" /\ UNCHANGED showConfirmModal
       ELSE showConfirmModal' = TRUE /\ UNCHANGED status
    /\ UNCHANGED <<authVars, storeVars, derivedVars, gallonsUsedOnRoad, gallonsToRefill,
                   mixVars, selectedRoad, condVars, resetPc, toDelete>>

\* the modal's Cancel button, line 518
CancelReset ==
    /\ showConfirmModal
    /\ showConfirmModal' = FALSE
    /\ UNCHANGED <<authVars, storeVars, derivedVars, gallonsUsedOnRoad, gallonsToRefill,
                   mixVars, selectedRoad, condVars, status, resetPc, toDelete>>

DocIds(docs) == {docs[i].id : i \in 1..Len(docs)}

ConfirmResetHistory_Unprompted ==
    /\ resetPc = "idle"
    /\ showConfirmModal' = FALSE
    /\ IF ~db \/ userId = NoUser
       THEN UNCHANGED <<status, resetPc, toDelete>>
       ELSE \/ /\ status' = "Clearing"
               /\ resetPc' = "deleting"
               /\ toDelete' = DocIds(store)
            \/ /\ status' = "ResetError"
               /\ UNCHANGED <<resetPc, toDelete>>
    /\ UNCHANGED <<authVars, storeVars, derivedVars, gallonsUsedOnRoad, gallonsToRefill,
                   mixVars, selectedRoad, condVars>>

\* confirmResetHistory up to the deleteDoc calls of line 469: getDocs reads
\* the collection, or rejects.  One reset runs at a time.
ConfirmResetHistory ==
    /\ showConfirmModal
    /\ resetPc = "idle"
    /\ showConfirmModal' = FALSE
    /\ IF ~db \/ userId = NoUser
       THEN UNCHANGED <<status, resetPc, toDelete>>
       ELSE \/ /\ status' = "Clearing"
               /\ resetPc' = "deleting"
               /\ toDelete' = DocIds(store)
            \/ /\ status' = "ResetError"
               /\ UNCHANGED <<resetPc, toDelete>>
    /\ UNCHANGED <<authVars, storeVars, derivedVars, gallonsUsedOnRoad, gallonsToRefill,
                   mixVars, selectedRoad, condVars>>

\* the collection without document id
RemoveDoc(docs, id) == SelectSeq(docs, LAMBDA d : d.id # id)

\* one deleteDoc of line 469 completes: the document is deleted and the
\* listener notified, or the promise rejects; the first rejection rejects
\* Promise.all and runs the catch of lines 487-490, the other deletions go on
ResetDelete ==
    /\ resetPc \in {"deleting", "failed"}
    /\ \E id \in toDelete :
        /\ toDelete' = toDelete \ {id}
        /\ \/ /\ Len(inflight) < MaxInFlight
              /\ store' = RemoveDoc(store, id)
              /\ inflight' = Notify(inflight, store')
              /\ resetPc' = IF resetPc = "failed" /\ toDelete' = {} THEN "idle" ELSE resetPc
              /\ UNCHANGED status
           \/ /\ UNCHANGED <<store, inflight>>
              /\ status' = IF resetPc = "deleting" THEN "ResetError" ELSE status
              /\ resetPc' = IF toDelete' = {} THEN "idle" ELSE "failed"
    /\ UNCHANGED <<authVars, nextId, derivedVars, gallonsUsedOnRoad, gallonsToRefill,
                   mixVars, selectedRoad, condVars, showConfirmModal>>

\* Promise.all resolved: lines 472-486
ResetFinish ==
    /\ resetPc = "deleting"
    /\ toDelete = {}
    /\ resetPc' = "idle"
    /\ startingGallons' = DefaultCapacity
    /\ gallonsLeft' = DefaultCapacity
    /\ gallonsUsedOnRoad' = 0
    /\ chemicalMix' = <<>>
    /\ currentChemical' = [name |-> NoText, totalOz |-> 0]
    /\ selectedRoad' = NoText
    /\ gallonsToRefill' = 0
    /\ weather' = NoText
    /\ temperature' = 70
    /\ windDirection' = "South West"
    /\ windSpeed' = 5
    /\ status' = "Cleared"
    /\ inflight' = IF startingGallons # DefaultCapacity
                   THEN Resubscribe(db, userId, store) ELSE inflight
    /\ UNCHANGED <<authVars, store, nextId, logs, showConfirmModal, toDelete>>

----------------------------------------------------------------------------
(* Report, lines 327-443 *)

\* the readings of the wall clock; new Date() of line 334 reads it
Clock == {1, 2}

\* line 328
ApplicationLogs(ls) == SelectSeq(ls, LAMBDA log : log.roadName # RefillLabel)

\* line 329
RefillLogs(ls) == SelectSeq(ls, LAMBDA log : log.roadName = RefillLabel)

\* line 368: parseFloat(chem.ozPerGal) || 0
ParsedOzPerGal(chem) == IF chem.ozPerGal.text THEN chem.ozPerGal.val ELSE 0

\* x.toFixed(2) of a quantity counted in 1e-7 oz: hundredths of an ounce
OzToFixed2(x) == RoundDiv(x, 100000)

OzCalculated_CurrentRatio(log, chem) ==
    log.gallonsUsed * CalculateOzPerGal(chem.totalOz, startingGallons).val

\* lines 368-370: gallonsUsed * ozPerGal, in 1e-7 oz
OzCalculated(log, chem) == log.gallonsUsed * ParsedOzPerGal(chem)

\* line 371
ChemicalLine(log, chem) ==
    [name |-> chem.name, applied |-> OzToFixed2(OzCalculated(log, chem))]

EntryNumber_Ascending(group, index) == index + 1

\* lines 359 and 381: length - index, index counting from 0
EntryNumber(group, index) == Len(group) - index

\* lines 356-374: one application entry; the document's id stands for its
\* server timestamp
ApplicationEntry(group, i) ==
    LET log == group[i] IN
    [number |-> EntryNumber(group, i - 1),
     logged |-> log.id,
     roadName |-> log.roadName,
     gallonsUsed |-> ToFixed2(log.gallonsUsed),
     gallonsLeft |-> ToFixed2(log.gallonsLeft),
     chemicals |-> [k \in 1..Len(log.chemicalMix) |-> ChemicalLine(log, log.chemicalMix[k])]]

\* lines 378-385: one refill entry; Math.abs of the negative gallonsUsed
RefillEntry(group, i) ==
    LET log == group[i] IN
    [number |-> EntryNumber(group, i - 1),
     logged |-> log.id,
     gallonsAdded |-> ToFixed2(IF log.gallonsUsed < 0 THEN -log.gallonsUsed
                               ELSE log.gallonsUsed),
     gallonsLeft |-> ToFixed2(log.gallonsLeft)]

ConditionsSection_NewestEvent(ls) ==
    IF ls # <<>> /\ ls[1].weatherConditions.weather # NoText
    THEN [available |-> TRUE, conditions |-> ls[1].weatherConditions]
    ELSE [available |-> FALSE, conditions |-> EmptyConditions]

\* lines 341-351: the conditions of the lastAppliedConditions memo, or N/A
ConditionsSection(ls) ==
    IF HasLastApplied(ls)
    THEN [available |-> TRUE, conditions |-> LastAppliedConditions(ls)]
    ELSE [available |-> FALSE, conditions |-> EmptyConditions]

GenerateReportContent_Stamped(now) ==
    LET applicationLogs == ApplicationLogs(logs)
        refillLogs == RefillLogs(logs)
    IN  [generated |-> now,
         userId |-> userId,
         totalTankCapacity |-> startingGallons,
         totalRoadApplications |-> Len(applicationLogs),
         totalRefills |-> Len(refillLogs),
         lastLogged |-> ConditionsSection(logs),
         applications |-> [i \in 1..Len(applicationLogs) |->
                              [ApplicationEntry(applicationLogs, i) EXCEPT !.logged = now]],
         refills |-> [i \in 1..Len(refillLogs) |->
                         [RefillEntry(refillLogs, i) EXCEPT !.logged = now]]]

\* generateReportContent, lines 327-392, called when the clock reads now
GenerateReportContent(now) ==
    LET applicationLogs == ApplicationLogs(logs)
        refillLogs == RefillLogs(logs)
    IN  [generated |-> now,
         userId |-> userId,
         totalTankCapacity |-> startingGallons,
         totalRoadApplications |-> Len(applicationLogs),
         totalRefills |-> Len(refillLogs),
         lastLogged |-> ConditionsSection(logs),
         applications |-> [i \in 1..Len(applicationLogs) |->
                              ApplicationEntry(applicationLogs, i)],
         refills |-> [i \in 1..Len(refillLogs) |-> RefillEntry(refillLogs, i)]]

\* downloadHistoryAsTxt, lines 395-412; the file leaves the component
DownloadHistoryAsTxt ==
    /\ status' = IF Len(logs) = 0 THEN "NoHistoryToExport" ELSE "Downloaded"
    /\ UNCHANGED <<authVars, storeVars, derivedVars, gallonsUsedOnRoad, gallonsToRefill,
                   mixVars, selectedRoad, condVars, resetVars>>

\* handlePrintReport, lines 414-443; the pop-up opens or is blocked
HandlePrintReport ==
    /\ IF Len(logs) = 0
       THEN status' = "NoHistoryToPrint"
       ELSE status' \in {"PrintOpened", "PrintBlocked"}
    /\ UNCHANGED <<authVars, storeVars, derivedVars, gallonsUsedOnRoad, gallonsToRefill,
                   mixVars, selectedRoad, condVars, resetVars>>

----------------------------------------------------------------------------
(* Sessions: the histories a report is generated from *)

\* events in the history of a session
MaxHistory == 3

\* what the operator of a session enters
SessionCapacities == {Gal(600), Gal(800)}
SessionApplications ==
    {[roadName |-> <<"Elk">>, used |-> Gal(50), weather |-> <<"Sunny">>],
     [roadName |-> <<"Bear">>, used |-> 33330, weather |-> <<"Rain">>]}
SessionRefills == {Gal(150)}

\* the staged mix at a capacity: handleChemicalAdd and the effect of lines 207-214
SessionMix(capacity) ==
    RecomputeMix(<<[name |-> <<"Milestone">>, totalOz |-> 120,
                    ozPerGal |-> CalculateOzPerGal(120, DefaultCapacity)]>>, capacity)

\* the derived state after the history h was delivered
SessionCapacity(h) == DerivedCapacity(h, DefaultCapacity)
SessionGallonsLeft(h) == DerivedGallonsLeft(h, DefaultCapacity)

\* the histories that extend h by one event: the operator sets the capacity
\* (lines 574-578) and logs an application (lines 278-313) or a refill
\* (lines 223-242) that the validations accept
SessionSteps(h) ==
    UNION {
        LET left == ClampedGallonsLeft(capacity, SessionGallonsLeft(h))
            id == Len(h) + 1
        IN  {Append(h, [id |-> id,
                        roadName |-> a.roadName,
                        gallonsUsed |-> ToFixed2(a.used),
                        gallonsLeft |-> ToFixed2(left - a.used),
                        initialTankVolume |-> capacity,
                        chemicalMix |-> SessionMix(capacity),
                        weatherConditions |->
                            [weather |-> a.weather, temperature |-> 70,
                             windDirection |-> "South West", windSpeed |-> 5]]) :
                a \in {x \in SessionApplications : x.used <= left}}
            \cup
            {Append(h, [id |-> id,
                        roadName |-> RefillLabel,
                        gallonsUsed |-> -(Min(capacity, left + r) - left),
                        gallonsLeft |-> ToFixed2(Min(capacity, left + r)),
                        initialTankVolume |-> capacity,
                        chemicalMix |-> <<>>,
                        weatherConditions |-> EmptyConditions]) :
                r \in {x \in SessionRefills : Min(capacity, left + x) - left > Eps}}
        : capacity \in SessionCapacities}

\* the histories of at most n events
RECURSIVE Sessions(_)
Sessions(n) ==
    IF n = 0 THEN {<<>>}
    ELSE LET shorter == Sessions(n - 1)
         IN  shorter \cup UNION {SessionSteps(h) : h \in {x \in shorter : Len(x) = n - 1}}

\* the component once the listener has delivered the history of a session
InitReport ==
    \E h \in Sessions(MaxHistory) :
        /\ db = TRUE
        /\ userId = "op1"
        /\ isAuthReady = TRUE
        /\ store = h
        /\ nextId = Len(h) + 1
        /\ inflight = <<>>
        /\ logs = Reverse(h)
        /\ startingGallons = SessionCapacity(h)
        /\ gallonsLeft = SessionGallonsLeft(h)
        /\ gallonsUsedOnRoad = 0
        /\ gallonsToRefill = 0
        /\ chemicalMix = (IF ApplicationLogs(h) = <<>> THEN <<>>
                          ELSE SessionMix(SessionCapacity(h)))
        /\ currentChemical = [name |-> NoText, totalOz |-> 0]
        /\ selectedRoad = NoText
        /\ weather = (IF HasLastApplied(Reverse(h))
                      THEN LastAppliedConditions(Reverse(h)).weather ELSE NoText)
        /\ temperature = 70
        /\ windDirection = "South West"
        /\ windSpeed = 5
        /\ status = (IF h = <<>> THEN "Ready"
                     ELSE IF Last(h).roadName = RefillLabel THEN "Refilled"
                     ELSE "Logged")
        /\ showConfirmModal = FALSE
        /\ resetPc = "idle"
        /\ toDelete = {}

----------------------------------------------------------------------------
(* The component *)

\* the identity handshake
Handshake ==
    \/ InitFirebase
    \/ AuthStateChanged

\* the operator stages an application
StageApplication ==
    \/ SetRoad
    \/ SetGallonsUsed
    \/ SetWeather
    \/ SetChemicalName
    \/ SetChemicalOz
    \/ HandleChemicalAdd

\* the remaining form fields
StageMore ==
    \/ SetTemperature
    \/ SetWindDirection
    \/ SetWindSpeed
    \/ HandleChemicalRemove

\* the reset dialogue and its deletions
Reset ==
    \/ HandleRestartJob
    \/ CancelReset
    \/ ConfirmResetHistory
    \/ ResetDelete
    \/ ResetFinish

Next ==
    \/ Handshake
    \/ StageApplication
    \/ TypeRefillLabel
    \/ StageMore
    \/ SetGallonsToRefill
    \/ HandleRefill
    \/ LogApplication
    \/ Deliver
    \/ SetCapacity
    \/ Reset
    \/ DownloadHistoryAsTxt
    \/ HandlePrintReport
    \/ TypeNegativeCapacity
    \/ TypeBlankChemicalName

\* the whole component
Spec == Init /\ [][Next]_vars

\* the operator refills and edits the capacity
NextRefill ==
    \/ Handshake
    \/ SetGallonsToRefill
    \/ HandleRefill
    \/ SetCapacity
    \/ Deliver

SpecRefill == Init /\ [][NextRefill]_vars

\* the operator logs applications and edits the capacity
NextApply ==
    \/ Handshake
    \/ StageApplication
    \/ LogApplication
    \/ SetCapacity
    \/ Deliver

SpecApply == Init /\ [][NextApply]_vars

\* the operator logs applications and refills at the default capacity
NextLog ==
    \/ Handshake
    \/ StageApplication
    \/ SetGallonsToRefill
    \/ LogApplication
    \/ HandleRefill
    \/ Deliver

SpecLog == Init /\ [][NextLog]_vars

\* the operator refills, edits the capacity and resets the history
NextReset ==
    \/ Handshake
    \/ SetGallonsToRefill
    \/ HandleRefill
    \/ SetCapacity
    \/ Reset
    \/ Deliver

SpecReset == Init /\ [][NextReset]_vars

\* the operator types the refill label as the road and logs applications
NextLabel ==
    \/ Handshake
    \/ TypeRefillLabel
    \/ SetGallonsUsed
    \/ SetWeather
    \/ SetChemicalName
    \/ SetChemicalOz
    \/ HandleChemicalAdd
    \/ LogApplication
    \/ Deliver

SpecLabel == Init /\ [][NextLabel]_vars

\* the operator fills in every field of the application form and logs
NextForms ==
    \/ Handshake
    \/ StageApplication
    \/ StageMore
    \/ LogApplication
    \/ HandleRefill
    \/ Deliver

SpecForms == Init /\ [][NextForms]_vars

\* the operator stages chemicals, blank names too, and edits the capacity,
\* below zero too
NextMix ==
    \/ SetChemicalName
    \/ TypeBlankChemicalName
    \/ SetChemicalOz
    \/ HandleChemicalAdd
    \/ HandleChemicalRemove
    \/ SetCapacity
    \/ TypeNegativeCapacity

SpecMix == Init /\ [][NextMix]_vars

\* the operator refills and edits the capacity, below zero too
NextOverdraw ==
    \/ Handshake
    \/ SetGallonsToRefill
    \/ HandleRefill
    \/ SetCapacity
    \/ TypeNegativeCapacity
    \/ Deliver

SpecOverdraw == Init /\ [][NextOverdraw]_vars

\* the operator refills and edits the capacity, and the listener is
\* scheduled: a snapshot that stays queued is delivered.  The callback runs
\* on the event loop as soon as no handler runs; the operator's actions are
\* under no obligation.
SpecNotified == Init /\ [][NextRefill]_vars /\ WF_vars(Deliver)

\* the operator exports and prints the report of a session
NextReport ==
    \/ DownloadHistoryAsTxt
    \/ HandlePrintReport

SpecReport == InitReport /\ [][NextReport]_vars

----------------------------------------------------------------------------
(* Claims *)

\* r is x rounded to a hundredth of a gallon (a tie upwards), x >= 0
IsRounded2(x, r) == r % Eps = 0 /\ 2 * (r - x) <= Eps /\ 2 * (x - r) < Eps

\* the store, its id counter and its queued notifications are untouched
NoStoreRequest == UNCHANGED <<store, nextId, inflight>>

\* C6: logApplication with a non-blank road and a positive volumeUsed greater
\* than the derived gallonsLeft fails with InsufficientInventory, appends
\* nothing and leaves the event sequence and the derived state unchanged.
C6_InsufficientInventoryRejected ==
    [][(/\ LogApplication
        /\ Trim(selectedRoad) # <<>>
        /\ gallonsUsedOnRoad > 0
        /\ gallonsUsedOnRoad > gallonsLeft)
       => (/\ status' = "Exceeds"
           /\ NoStoreRequest
           /\ UNCHANGED <<logs, startingGallons, gallonsLeft>>)]_vars

\* C6 witness: a call asking for more than is left was rejected while events exist
C6_Witness ==
    /\ status = "Exceeds"
    /\ gallonsUsedOnRoad > gallonsLeft
    /\ Len(store) >= 1

\* what the claims call a valid logApplication call, in the claims' words
ValidApplicationCall ==
    /\ Trim(selectedRoad) # <<>>
    /\ gallonsUsedOnRoad # NaN /\ gallonsUsedOnRoad > 0
    /\ gallonsUsedOnRoad <= gallonsLeft
    /\ chemicalMix # <<>>
    /\ Trim(weather) # <<>>
    /\ temperature \notin {0, NaN}
    /\ windDirection # ""
    /\ windSpeed \notin {0, NaN}
    /\ isAuthReady /\ db /\ userId # NoUser

\* the step appends exactly one event, e, at the end of the store
AppendsOne(e) == store' = Append(store, e)

\* C1 as stated: a logApplication call that passes every validation (and whose
\* append the store accepts) appends exactly one Application event whose
\* volumeRemainingAfter is gallonsLeft - volumeUsed, whose tankCapacityAtTime
\* is the capacity at call time, and whose chemicals and conditions are the
\* staged mix and the staged conditions.
C1_Original ==
    [][(LogApplication /\ ValidApplicationCall /\ status' # "SaveError")
       => (/\ Len(store') = Len(store) + 1
           /\ AppendsOne(Last(store'))
           /\ Last(store').roadName # RefillLabel
           /\ Last(store').gallonsLeft = gallonsLeft - gallonsUsedOnRoad
           /\ Last(store').initialTankVolume = startingGallons
           /\ Last(store').chemicalMix = chemicalMix
           /\ Last(store').weatherConditions =
                [weather |-> weather, temperature |-> temperature,
                 windDirection |-> windDirection, windSpeed |-> windSpeed])]_vars

\* C1 amended: a logApplication call that passes every validation (and whose
\* append the store accepts) appends exactly one Application event whose
\* volumeRemainingAfter is gallonsLeft - volumeUsed rounded to two decimals,
\* whose tankCapacityAtTime is the capacity at call time, whose chemicals are
\* the staged mix and whose conditions are the staged conditions with the
\* weather text trimmed.
C1_ApplicationEvent ==
    [][(LogApplication /\ ValidApplicationCall /\ status' # "SaveError")
       => (/\ Len(store') = Len(store) + 1
           /\ AppendsOne(Last(store'))
           /\ Last(store').roadName # RefillLabel
           /\ IsRounded2(gallonsLeft - gallonsUsedOnRoad, Last(store').gallonsLeft)
           /\ Last(store').initialTankVolume = startingGallons
           /\ Last(store').chemicalMix = chemicalMix
           /\ Last(store').weatherConditions =
                [weather |-> Trim(weather), temperature |-> temperature,
                 windDirection |-> windDirection, windSpeed |-> windSpeed])]_vars

\* C1 witness: an application was logged at an edited capacity, its remaining
\* volume rounded
C1_Witness ==
    /\ status = "Logged"
    /\ store # <<>>
    /\ Last(store).roadName # RefillLabel
    /\ Last(store).initialTankVolume # DefaultCapacity
    /\ Last(store).gallonsLeft = Gal(200)
    /\ Last(store).chemicalMix # <<>>

\* what the claims call actualAdded, in the claims' words
ClaimActualAdded(x) ==
    (IF gallonsLeft + x > startingGallons THEN startingGallons ELSE gallonsLeft + x)
        - gallonsLeft

\* logRefill(x) is called with x > 0 once the handshake has completed
RefillCall ==
    /\ HandleRefill
    /\ gallonsToRefill # NaN /\ gallonsToRefill > 0
    /\ isAuthReady /\ db /\ userId # NoUser

C5_Original ==
    \A i \in 1..Len(store) :
        /\ 0 <= store[i].gallonsLeft
        /\ store[i].gallonsLeft <= store[i].initialTankVolume

\* C7: logRefill(x) with x > 0, the handshake completed, fails with TankFull
\* and appends nothing whenever min(capacity, gallonsLeft + x) - gallonsLeft is
\* at most the tolerance 0.01, in particular when gallonsLeft = capacity; the
\* event sequence and the derived state are unchanged.
C7_TankFullRejected ==
    [][(RefillCall /\ ClaimActualAdded(gallonsToRefill) <= 10)
       => (/\ status' = "TankFull"
           /\ NoStoreRequest
           /\ UNCHANGED <<logs, startingGallons, gallonsLeft>>)]_vars

\* C7 witness: a refill of exactly the tolerance was rejected although the
\* tank had room
C7_Witness ==
    /\ status = "TankFull"
    /\ gallonsToRefill = 10
    /\ gallonsLeft + gallonsToRefill <= startingGallons

RemainingBefore(i) ==
    IF i = 1 THEN store[1].initialTankVolume ELSE store[i - 1].gallonsLeft

\* C4: every Application event in the store has volumeDelta > 0 and
\* volumeDelta <= the volumeRemainingAfter of the event before it (the
\* starting capacity for the first event), also when a second logApplication
\* is issued before the notification of the first append is delivered.
C4_Original ==
    \A i \in 1..Len(store) :
        store[i].roadName # RefillLabel
            => /\ store[i].gallonsUsed > 0
               /\ store[i].gallonsUsed <= RemainingBefore(i)

\* what C8 calls an invalid logApplication call
C8_InvalidApplicationCall ==
    \/ Trim(selectedRoad) = <<>>
    \/ gallonsUsedOnRoad <= 0 \/ gallonsUsedOnRoad = NaN
    \/ chemicalMix = <<>>
    \/ Trim(weather) = <<>>
    \/ temperature \in {0, NaN}
    \/ windDirection = ""
    \/ windSpeed \in {0, NaN}

\* what C8 calls an invalid logRefill call
C8_InvalidRefillCall == gallonsToRefill <= 0 \/ gallonsToRefill = NaN

\* C8: a logApplication call with a blank road, a non-positive or non-numeric
\* volume, an empty staged mix or a blank or zero condition field, and a
\* logRefill call with a non-positive or non-numeric amount, is rejected
\* before any append: the store receives no request and the event sequence
\* is unchanged.
C8_ValidationBeforeAppend ==
    [][(\/ LogApplication /\ C8_InvalidApplicationCall
        \/ HandleRefill /\ C8_InvalidRefillCall) => NoStoreRequest]_vars

\* C8 witness: on a ledger that already holds an event, an application whose
\* road, volume and mix are valid but whose wind speed is not a number has
\* been rejected
C8_Witness ==
    /\ status = "IncompleteConditions"
    /\ store # <<>>
    /\ Trim(selectedRoad) # <<>>
    /\ gallonsUsedOnRoad > 0
    /\ chemicalMix # <<>>
    /\ Trim(weather) # <<>>
    /\ temperature = 70
    /\ windSpeed = NaN

\* C9: when the listener processes a notification carrying an ordered event
\* list, the derived gallonsLeft becomes the volumeRemainingAfter of the last
\* event, or the configured capacity when the list is empty, and the derived
\* capacity becomes the last event's tankCapacityAtTime when the list is not
\* empty; no other event of the list has a part in it.
C9_DerivedFromLastEvent ==
    [][Deliver =>
        LET list == Head(inflight) IN
        IF list = <<>>
        THEN gallonsLeft' = startingGallons
        ELSE /\ gallonsLeft' = list[Len(list)].gallonsLeft
             /\ startingGallons' = list[Len(list)].initialTankVolume]_vars

\* C9 witness: a list of two events recorded at different capacities has
\* been delivered, and the derived state is that of the newer one (logs is
\* kept newest first)
C9_Witness ==
    /\ Len(logs) = 2
    /\ logs[1].id = 2
    /\ logs[1].initialTankVolume # logs[2].initialTankVolume
    /\ startingGallons = logs[1].initialTankVolume
    /\ gallonsLeft = logs[1].gallonsLeft

\* every event of the store was recorded at one capacity, and the configured
\* capacity is another: the operator has edited the capacity since the last
\* event was logged and nothing has been logged since (a delivery can only
\* set the capacity to a recorded one, and a log records the configured one)
C10_EditedSinceLastLog ==
    /\ store # <<>>
    /\ \A i \in 1..Len(store) : store[i].initialTankVolume = store[1].initialTankVolume
    /\ startingGallons # store[1].initialTankVolume

\* C10: after setCapacity(c) on a ledger whose event sequence is not empty,
\* and until the next event is logged, the derived capacity remains c across
\* every notification delivered in between, the first snapshot of a
\* re-subscription included.
C10_Original ==
    [][(Deliver /\ C10_EditedSinceLastLog) => startingGallons' = startingGallons]_vars

\* C11: setCapacity(newCapacity) sets the configured capacity to newCapacity
\* and gallonsLeft to min(newCapacity, gallonsLeft), and appends no event to
\* and deletes no event from the store.
C11_Original ==
    [][SetCapacity =>
        \E c \in CapacityInputs :
            /\ startingGallons' = c
            /\ gallonsLeft' = (IF c <= gallonsLeft THEN c ELSE gallonsLeft)
            /\ store' = store]_vars

\* C11 as the code has it: a newCapacity that is zero or not a number is
\* replaced by 1 gallon before it is stored and before gallonsLeft is clamped.
C11_SetCapacity ==
    [][SetCapacity =>
        \E c \in CapacityInputs :
            LET effective == IF c = 0 \/ c = NaN THEN Gal(1) ELSE c IN
            /\ startingGallons' = effective
            /\ gallonsLeft' = (IF effective <= gallonsLeft THEN effective ELSE gallonsLeft)
            /\ store' = store]_vars

\* C11 witness: on a ledger holding an event that left more than a gallon,
\* setCapacity(0) has set the capacity to 1 gallon and clamped gallonsLeft to it
C11_Witness ==
    /\ store # <<>>
    /\ store[Len(store)].gallonsLeft > Gal(1)
    /\ startingGallons = Gal(1)
    /\ gallonsLeft = Gal(1)

\* a reset has completed without a store error, every event it read has been
\* deleted and nothing has been logged or edited since: the status is still
\* that of the completed reset, the store is empty and the configured
\* capacity is the default the reset restored
C12_ResetCompleted ==
    /\ status = "Cleared"
    /\ resetPc = "idle"
    /\ store = <<>>
    /\ startingGallons = DefaultCapacity

\* C12: after a reset that completes without a store error, delivering the
\* pending notifications leaves capacity = the default (600), whatever the
\* capacity and the events were before the reset; with the queue drained the
\* event list is empty and gallonsLeft is the default too.
C12_Original ==
    [][(Deliver /\ C12_ResetCompleted)
        => /\ startingGallons' = DefaultCapacity
           /\ (inflight' = <<>> => gallonsLeft' = DefaultCapacity /\ logs' = <<>>)]_vars

\* C13: once an Application event has been appended, the ratio stored for
\* each of its chemicals never changes, whatever capacity edits, staged-mix
\* recomputations, chemical additions or further log operations follow, as
\* long as the event is in the store.
C13_RatiosFrozen ==
    [][\A i \in 1..Len(store) : \A j \in 1..Len(store') :
            store'[j].id = store[i].id
                => store'[j].chemicalMix = store[i].chemicalMix]_vars

\* C13 witness: an application logged at capacity 600 with 120 oz keeps the
\* ratio 0.2000 after the capacity was edited, the staged mix was recomputed
\* against the new capacity and a second application was logged
C13_Witness ==
    /\ Len(store) = 2
    /\ store[1].initialTankVolume = Gal(600)
    /\ store[1].chemicalMix # <<>>
    /\ store[1].chemicalMix[1].totalOz = 120
    /\ store[1].chemicalMix[1].ozPerGal = [text |-> TRUE, val |-> 2000]
    /\ store[2].initialTankVolume = Gal(800) + 8
    /\ store[2].chemicalMix[1].ozPerGal # store[1].chemicalMix[1].ozPerGal
    /\ chemicalMix # <<>>
    /\ chemicalMix[1].ozPerGal # store[1].chemicalMix[1].ozPerGal

\* r is totalOz / capacity to four decimals, as text: r counts
\* ten-thousandths of an ounce per gallon, capacity thousandths of a gallon
C14_IsRatio(r, totalOz, capacity) ==
    /\ capacity > 0
    /\ r.text
    /\ LET below == (totalOz * 10000000) \div capacity
           rest == (totalOz * 10000000) % capacity
       IN  \/ r.val = below /\ 2 * rest <= capacity
           \/ r.val = below + 1 /\ 2 * rest >= capacity

\* C14: whenever the configured capacity changes, by an operator edit or by a
\* store notification, every chemical of the staged mix has its ratio
\* recomputed to ratioPerUnitVolume(totalQuantity, new capacity), and the
\* names, total quantities, order and number of staged chemicals are unchanged.
C14_StagedMixRecomputed ==
    [][((SetCapacity \/ Deliver) /\ startingGallons' # startingGallons)
        => /\ Len(chemicalMix') = Len(chemicalMix)
           /\ \A i \in 1..Len(chemicalMix) :
                /\ chemicalMix'[i].name = chemicalMix[i].name
                /\ chemicalMix'[i].totalOz = chemicalMix[i].totalOz
                /\ C14_IsRatio(chemicalMix'[i].ozPerGal, chemicalMix[i].totalOz,
                               startingGallons')]_vars

\* C14 witness: the chemical that was logged with the ratio 0.2000 at capacity
\* 600 is still staged, and after the capacity became 1 gallon its staged
\* ratio is 120.0000
C14_Witness ==
    /\ Len(store) = 1
    /\ store[1].chemicalMix[1].ozPerGal.val = 2000
    /\ startingGallons = Gal(1)
    /\ Len(chemicalMix) = 1
    /\ chemicalMix[1].name = store[1].chemicalMix[1].name
    /\ chemicalMix[1].totalOz = 120
    /\ chemicalMix[1].ozPerGal = [text |-> TRUE, val |-> 1200000]

\* the volume the ledger held before refill event i was logged, as C15 defines
\* it: the remaining volume of the event before it, the starting capacity
\* of the ledger when it is the first
C15_RemainingBefore(i) ==
    IF i = 1 THEN DefaultCapacity ELSE store[i - 1].gallonsLeft

\* C15: every Refill event in the store has volumeDelta < 0 and |volumeDelta|
\* <= tankCapacityAtTime - the volumeRemainingAfter of the event before it
\* (the starting capacity when it is the first), also when two refills are
\* issued before the notification for the first has been delivered.
C15_Original ==
    \A i \in 1..Len(store) :
        store[i].roadName = RefillLabel
            => /\ store[i].gallonsUsed < 0
               /\ -store[i].gallonsUsed
                    <= store[i].initialTankVolume - C15_RemainingBefore(i)

\* two refills of 150 gallons issued at capacity 800.008 with 600 gallons left,
\* the second before the first was delivered
C15_RacingRefills ==
    /\ Len(store) = 2
    /\ \A i \in 1..2 :
        /\ store[i].roadName = RefillLabel
        /\ store[i].gallonsUsed = -Gal(150)
        /\ store[i].gallonsLeft = Gal(750)
        /\ store[i].initialTankVolume = Gal(800) + 8

\* the identity handshake has not completed: auth not ready or no operator id
C16_HandshakeIncomplete == ~isAuthReady \/ userId = NoUser

\* a ledger operation is called with input that passes validation
C16_LedgerOperation ==
    \/ LogApplication /\ ~C8_InvalidApplicationCall /\ gallonsUsedOnRoad <= gallonsLeft
    \/ HandleRefill /\ ~C8_InvalidRefillCall
    \/ SetCapacity
    \/ HandleRestartJob

\* C16: before the identity handshake has completed, every ledger operation
\* (logApplication, logRefill, setCapacity, reset) is refused with a NotReady
\* outcome and changes neither the store nor the derived state.
C16_Original ==
    [][(C16_HandshakeIncomplete /\ C16_LedgerOperation)
        => /\ status' \in {"StillInitializing", "InitializingRestart"}
           /\ UNCHANGED <<store, nextId, logs, startingGallons, gallonsLeft>>]_vars

\* the ids of the events in a sequence of events
C17_Ids(events) == {events[i].id : i \in 1..Len(events)}

\* C17: an event is deleted from the store only as part of a reset the
\* operator confirmed: a deletion happens only while a confirmed reset is
\* deleting and removes only events that reset read; a reset starts deleting
\* only from the open confirmation dialogue; the dialogue opens only by a
\* reset request (handleRestartJob); and cancelling the dialogue leaves the
\* store and the derived state unchanged.
C17_DeleteOnlyByConfirmedReset ==
    [][/\ (C17_Ids(store) \ C17_Ids(store') # {}
            => /\ resetPc \in {"deleting", "failed"}
               /\ C17_Ids(store) \ C17_Ids(store') \subseteq toDelete)
       /\ (resetPc = "idle" /\ resetPc' # "idle" => showConfirmModal)
       /\ (~showConfirmModal /\ showConfirmModal' => HandleRestartJob)
       /\ (CancelReset
            => UNCHANGED <<store, nextId, inflight, logs, startingGallons, gallonsLeft,
                           resetPc, toDelete>>)]_vars

\* C17 witness: the only event of the ledger has been deleted by a reset that
\* was requested and confirmed and is still running
C17_Witness ==
    /\ nextId = 2
    /\ store = <<>>
    /\ status = "Clearing"
    /\ resetPc = "deleting"
    /\ toDelete = {}
    /\ ~showConfirmModal

\* C18: between resets the store's event sequence is append-only: every step
\* that is not a deletion of a reset leaves it unchanged or adds exactly one
\* event at the end, so that no field of an existing event changes and the
\* existing events keep their order.
C18_AppendOnly ==
    [][~ResetDelete
        => \/ store' = store
           \/ /\ Len(store') = Len(store) + 1
              /\ SubSeq(store', 1, Len(store)) = store
              /\ \A i \in 1..Len(store) : store'[Len(store')].id # store[i].id]_vars

\* C18 witness: two events were appended one after the other and no reset is
\* running
C18_Witness ==
    /\ Len(store) = 2
    /\ store[1].id = 1
    /\ store[2].id = 2
    /\ store[1].gallonsLeft # store[2].gallonsLeft
    /\ resetPc = "idle"
    /\ toDelete = {}

\* C19: in every reachable state, every stored event under the refill label
\* is a Refill (negative volumeDelta, no chemicals, empty conditions) and
\* every stored event under another label is an Application with a non-empty
\* chemical list and four non-blank condition fields; logApplication never
\* stores an event under the refill label.
C19_Original ==
    \A i \in 1..Len(store) :
        IF store[i].roadName = <<"TANK REFILL">>
        THEN /\ store[i].gallonsUsed < 0
             /\ store[i].chemicalMix = <<>>
             /\ store[i].weatherConditions = EmptyConditions
        ELSE /\ store[i].chemicalMix # <<>>
             /\ store[i].weatherConditions.weather # <<>>
             /\ store[i].weatherConditions.temperature \notin {0, NaN}
             /\ store[i].weatherConditions.windDirection # ""
             /\ store[i].weatherConditions.windSpeed \notin {0, NaN}

\* the state C20 derives from a snapshot and the configured capacity
C20_Capacity(events, configured) ==
    IF events = <<>> THEN configured ELSE events[Len(events)].initialTankVolume

C20_GallonsLeft(events, configured) ==
    IF events = <<>> THEN configured ELSE events[Len(events)].gallonsLeft

C20_NewestFirst(events) == [i \in 1..Len(events) |-> events[Len(events) + 1 - i]]

\* the positions of the applications that carry a weather text
C20_Applied(events) ==
    {i \in 1..Len(events) :
        events[i].roadName # <<"TANK REFILL">> /\ events[i].weatherConditions.weather # <<>>}

C20_Newest(positions) == CHOOSE i \in positions : \A j \in positions : j <= i

\* the derived state is the one that delivering the snapshot yields
C20_AlreadyDelivered(events) ==
    /\ logs = C20_NewestFirst(events)
    /\ startingGallons = C20_Capacity(events, startingGallons)
    /\ gallonsLeft = C20_GallonsLeft(events, startingGallons)

\* C20: processing a store notification is history-independent and
\* idempotent: the derived capacity, gallonsLeft, event list and last
\* conditions after a notification are functions of that snapshot and the
\* configured capacity alone, and delivering a snapshot to a state that
\* already is its derived state changes none of them.
C20_DeliverIdempotent ==
    [][Deliver =>
        LET events == Head(inflight) IN
        /\ logs' = C20_NewestFirst(events)
        /\ startingGallons' = C20_Capacity(events, startingGallons)
        /\ gallonsLeft' = C20_GallonsLeft(events, startingGallons)
        /\ HasLastApplied(logs') = (C20_Applied(events) # {})
        /\ (C20_Applied(events) # {}
             => LastAppliedConditions(logs')
                    = events[C20_Newest(C20_Applied(events))].weatherConditions)
        /\ (C20_AlreadyDelivered(events)
             => UNCHANGED <<logs, startingGallons, gallonsLeft>>)]_vars

\* C20 witness: a snapshot of one event is queued for a listener whose derived
\* state already is the one that snapshot yields: the same snapshot is about
\* to be delivered a second time
C20_Witness ==
    /\ inflight # <<>>
    /\ Len(Head(inflight)) = 1
    /\ logs = Head(inflight)
    /\ startingGallons = logs[1].initialTankVolume
    /\ gallonsLeft = logs[1].gallonsLeft

\* the ids of the delivered events whose label is, or is not, the refill label
ClaimIds(isRefill) ==
    {logs[i].id : i \in {j \in 1..Len(logs) : (logs[j].roadName = RefillLabel) = isRefill}}

\* a section of the report lists exactly the events ids, the most recent
\* first, and numbers the k-th oldest of them k
ClaimSection(entries, ids) ==
    /\ Len(entries) = Cardinality(ids)
    /\ {entries[i].logged : i \in 1..Len(entries)} = ids
    /\ \A i, j \in 1..Len(entries) : i < j => entries[i].logged > entries[j].logged
    /\ \A i \in 1..Len(entries) :
        entries[i].number = Cardinality({x \in ids : x <= entries[i].logged})

\* C21: the report puts every event in exactly one of two sections, the
\* applications (label other than the refill label) and the refills; the two
\* counts add up to the number of events; each section lists its events the
\* most recent first and numbers the k-th oldest of the section k, however
\* applications and refills interleave.
C21_ReportPartitions ==
    LET r == GenerateReportContent(1) IN
    /\ r.totalRoadApplications + r.totalRefills = Len(logs)
    /\ r.totalRoadApplications = Cardinality(ClaimIds(FALSE))
    /\ r.totalRefills = Cardinality(ClaimIds(TRUE))
    /\ ClaimSection(r.applications, ClaimIds(FALSE))
    /\ ClaimSection(r.refills, ClaimIds(TRUE))

\* a report was exported of an application, a refill and a later application
C21_Witness ==
    /\ status = "Downloaded"
    /\ Len(logs) = 3
    /\ logs[1].roadName # RefillLabel
    /\ logs[2].roadName = RefillLabel
    /\ logs[3].roadName # RefillLabel
    /\ GenerateReportContent(1).applications[1].number = 2

\* the delivered applications that carry conditions
ClaimAppliedIds ==
    {logs[i].id : i \in {j \in 1..Len(logs) :
        logs[j].roadName # RefillLabel /\ logs[j].weatherConditions.weather # NoText}}

\* C22: the conditions the report gives as last logged are those of the
\* latest application that carries conditions, also when refills were logged
\* after it; without such an application the report gives the
\* not-available marker.
C22_LastLoggedConditions ==
    LET section == GenerateReportContent(1).lastLogged IN
    IF ClaimAppliedIds = {}
    THEN ~section.available
    ELSE /\ section.available
         /\ \E i \in 1..Len(logs) :
              /\ logs[i].id \in ClaimAppliedIds
              /\ \A x \in ClaimAppliedIds : x <= logs[i].id
              /\ section.conditions = logs[i].weatherConditions

\* a report was exported of two applications in different weather and a
\* later refill
C22_Witness ==
    /\ status = "Downloaded"
    /\ Len(logs) = 3
    /\ logs[1].roadName = RefillLabel
    /\ logs[2].weatherConditions.weather = <<"Rain">>
    /\ logs[3].weatherConditions.weather = <<"Sunny">>
    /\ GenerateReportContent(1).lastLogged.conditions.weather = <<"Rain">>

\* C23 as stated: two reports of the same events, capacity, operator and
\* last conditions are the same text, whatever the clock reads at each call.
C23_Original ==
    \A t1, t2 \in Clock : GenerateReportContent(t1) = GenerateReportContent(t2)

\* C23: two reports of the same events, capacity, operator and last
\* conditions differ at most in the line that gives the time of generation,
\* which is the reading of the clock at the call.
C23_SameButGenerated ==
    \A t1, t2 \in Clock :
        /\ GenerateReportContent(t1).generated = t1
        /\ [GenerateReportContent(t1) EXCEPT !.generated = t2] = GenerateReportContent(t2)

\* a report of three events was exported, and a later one has another text
C23_Witness ==
    /\ status = "Downloaded"
    /\ Len(logs) = 3
    /\ \E t1, t2 \in Clock : t1 < t2 /\ GenerateReportContent(t1) # GenerateReportContent(t2)

\* applied, in hundredths of an ounce, is used (thousandths of a gallon)
\* times ratio (ten-thousandths of an ounce per gallon) to two decimals
ClaimAppliedQuantity(applied, used, ratio) ==
    /\ 2 * (applied * 100000 - used * ratio) <= 100000
    /\ 2 * (used * ratio - applied * 100000) <= 100000

\* C24: for every chemical of every application in the report, the quantity
\* given as applied is the usage logged in that event times the ratio stored
\* in that event, to two decimals; neither the current capacity nor a
\* recomputed ratio enters.
C24_AppliedFromStoredRatio ==
    LET entries == GenerateReportContent(1).applications IN
    \A e \in 1..Len(entries) : \A i \in 1..Len(logs) :
        logs[i].id = entries[e].logged =>
            /\ Len(entries[e].chemicals) = Len(logs[i].chemicalMix)
            /\ \A k \in 1..Len(logs[i].chemicalMix) :
                /\ entries[e].chemicals[k].name = logs[i].chemicalMix[k].name
                /\ ClaimAppliedQuantity(entries[e].chemicals[k].applied,
                                        logs[i].gallonsUsed,
                                        logs[i].chemicalMix[k].ozPerGal.val)

\* a report was exported of an application of 50 gallons at the ratio 0.2000
\* logged before the capacity was changed: 10.00 oz applied
C24_Witness ==
    /\ status = "Downloaded"
    /\ \E i \in 1..Len(logs) :
        /\ logs[i].roadName # RefillLabel
        /\ logs[i].initialTankVolume # startingGallons
        /\ logs[i].gallonsUsed = Gal(50)
        /\ logs[i].chemicalMix[1].ozPerGal.val = 2000
        /\ \E e \in 1..Len(GenerateReportContent(1).applications) :
            /\ GenerateReportContent(1).applications[e].logged = logs[i].id
            /\ GenerateReportContent(1).applications[e].chemicals[1].applied = 1000

\* r is the ratio the claim gives for totalOz in volume
ClaimRatio(r, totalOz, volume) ==
    IF volume > 0 THEN C14_IsRatio(r, totalOz, volume)
    ELSE r = [text |-> FALSE, val |-> 0]

\* C25: the ratio of a total quantity to a reference volume is the quotient
\* to four decimals when the volume is above zero and the zero ratio when it
\* is zero or below; no input divides by zero.  Checked where handleChemicalAdd
\* computes the ratio of the staged chemical at the configured capacity, and
\* for the same quantity at the volume zero.
C25_RatioPerUnitVolume ==
    [][(HandleChemicalAdd /\ Len(chemicalMix') > Len(chemicalMix))
        => /\ ClaimRatio(Last(chemicalMix').ozPerGal, currentChemical.totalOz,
                         startingGallons)
           /\ ClaimRatio(CalculateOzPerGal(currentChemical.totalOz, 0),
                         currentChemical.totalOz, 0)]_vars

\* a chemical was staged at a capacity below zero: the zero ratio
C25_Witness ==
    /\ startingGallons < 0
    /\ chemicalMix # <<>>
    /\ chemicalMix[1].totalOz > 0
    /\ chemicalMix[1].ozPerGal = [text |-> FALSE, val |-> 0]

\* C26: a logRefill(x) that appends its event reports the request as capped
\* exactly when the volume added is less than x, which is exactly when
\* gallonsLeft + x was above the capacity.
C26_CappedReported ==
    [][(RefillCall /\ store' # store)
        => /\ status' \in {"RefilledCapped", "Refilled"}
           /\ (status' = "RefilledCapped") = (-Last(store').gallonsUsed < gallonsToRefill)
           /\ (status' = "RefilledCapped") = (gallonsLeft + gallonsToRefill > startingGallons)]_vars

\* the last refill was reported capped, and an earlier one was not
C26_Witness ==
    /\ status = "RefilledCapped"
    /\ Len(store) = 2
    /\ -store[1].gallonsUsed \in RefillInputs
    /\ -store[2].gallonsUsed \notin RefillInputs

\* what the operator is told when the reset could not read the events
\* (the catch of lines 487-490 after getDocs rejected), and after a reset
\* that completed (line 486)
ClaimReadFailureOutcome == "ResetError"
ClaimResetSuccessOutcome == "Cleared"

\* a deletion of the running reset fails, after the reset has deleted an
\* event and with an event left in the store
ClaimPartialReset ==
    /\ ResetDelete
    /\ resetPc = "deleting"
    /\ store' = store
    /\ store # <<>>
    /\ \E id \in 1..(nextId - 1) : id \notin DocIds(store) /\ id \notin toDelete

\* C27 as stated: when a deletion fails in a reset that has deleted some but
\* not all events, the outcome reported differs from the outcome of a reset
\* that could not read the events and from the outcome of a successful reset,
\* and the capacity and gallonsLeft in memory are not restored to the default.
C27_Original ==
    [][ClaimPartialReset
        => /\ status' \notin {ClaimReadFailureOutcome, ClaimResetSuccessOutcome}
           /\ UNCHANGED <<startingGallons, gallonsLeft>>]_vars

\* the reset deleted one of two refills and failed to delete the other
C27_PartialReset ==
    /\ status = "ResetError"
    /\ resetPc = "idle"
    /\ Len(store) = 1
    /\ nextId = 3
    /\ toDelete = {}

\* a logApplication or logRefill call that passes every validation, and
\* whose append the store rejects
ClaimRejectedAppend ==
    /\ store' = store
    /\ \/ LogApplication /\ ValidApplicationCall /\ ~NotReady
       \/ RefillCall /\ ClaimActualAdded(gallonsToRefill) > Eps

\* C28: when the store rejects the append of a logApplication or logRefill,
\* the operation reports a save error, the event sequence and the derived
\* capacity and gallonsLeft are unchanged, and no further append is attempted
\* for that call: nothing is queued or stored until the operator calls again.
C28_RejectedAppend ==
    [][/\ ClaimRejectedAppend
          => /\ status' = (IF LogApplication /\ ValidApplicationCall /\ ~NotReady
                           THEN "SaveError" ELSE "RefillSaveError")
             /\ UNCHANGED <<store, nextId, inflight, logs, startingGallons, gallonsLeft>>
       /\ store' # store => (LogApplication \/ HandleRefill)]_vars

\* the store rejected the append of a staged application after it had
\* accepted a refill or an application
C28_Witness ==
    /\ status = "SaveError"
    /\ Len(store) = 1
    /\ gallonsUsedOnRoad > 0
    /\ gallonsUsedOnRoad <= gallonsLeft

\* C29 as stated: every event in the store has initialTankVolume > 0 and
\* gallonsLeft >= 0, whatever capacity the operator typed before logging:
\* zero, negative or not a number.
C29_Original ==
    \A i \in 1..Len(store) :
        /\ store[i].initialTankVolume > 0
        /\ store[i].gallonsLeft >= 0

\* C30 as stated: in every reachable state, after any interleaving of
\* capacity edits with any numeric input, applications, refills, the steps of
\* a reset and store notifications, 0 <= gallonsLeft <= capacity.
C30_Original ==
    /\ 0 <= gallonsLeft
    /\ gallonsLeft <= startingGallons

\* the operator typed a capacity below zero
C30_NegativeGallonsLeft ==
    /\ startingGallons = NegativeCapacity
    /\ gallonsLeft < 0

\* the k-th document is the newest of the store
ClaimNewest(k) == Len(store) = k /\ store[k].id = k

\* the notification of the append of the k-th document is queued
ClaimNotificationPending(k) ==
    /\ ClaimNewest(k)
    /\ inflight # <<>>
    /\ Last(inflight) = store

\* C31: after logRefill or logApplication has appended an event, and with the
\* notification of the append queued and the listener scheduled, then unless
\* a further event is appended the derived gallonsLeft comes to equal the
\* gallonsLeft stored in the event and the derived capacity its
\* initialTankVolume.
C31_EventuallyDerived ==
    \A k \in 1..(MaxId + 1) :
        ClaimNotificationPending(k) ~>
            \/ ~ClaimNewest(k)
            \/ /\ gallonsLeft = store[k].gallonsLeft
               /\ startingGallons = store[k].initialTankVolume

\* a refill logged at a capacity other than the default was delivered
C31_Witness ==
    /\ store # <<>>
    /\ inflight = <<>>
    /\ logs = Reverse(store)
    /\ Last(store).initialTankVolume # DefaultCapacity
    /\ gallonsLeft = Last(store).gallonsLeft
    /\ startingGallons = Last(store).initialTankVolume

\* C32 as stated: every later event's gallonsLeft is the gallonsLeft of the
\* event before it minus its own gallonsUsed, and the first event's is the
\* starting capacity, read as the default or as the capacity of the event,
\* minus its gallonsUsed.
C32_Original ==
    \A i \in 1..Len(store) :
        IF i = 1
        THEN store[i].gallonsLeft + store[i].gallonsUsed
                \in {DefaultCapacity, store[i].initialTankVolume}
        ELSE store[i].gallonsLeft = store[i - 1].gallonsLeft - store[i].gallonsUsed

\* an application of 400.002 gallons from a full tank of 800.008 gallons
C32_RoundedApplication ==
    /\ Len(store) = 1
    /\ store[1].initialTankVolume = Gal(800) + 8
    /\ store[1].gallonsUsed = Gal(400)
    /\ store[1].gallonsLeft = Gal(400) + Eps

\* C33: every application in the store carries, for each of its chemicals,
\* the ratio of the chemical's total quantity to the capacity stored in the
\* same event, also when the capacity was changed, by the operator or by a
\* notification, between the staging of the mix and the log.
C33_RatiosMatchEventCapacity ==
    \A i \in 1..Len(store) :
        store[i].roadName # RefillLabel =>
            /\ store[i].chemicalMix # <<>>
            /\ \A k \in 1..Len(store[i].chemicalMix) :
                ClaimRatio(store[i].chemicalMix[k].ozPerGal,
                           store[i].chemicalMix[k].totalOz,
                           store[i].initialTankVolume)

\* an application was logged at a capacity other than the default, with the
\* ratio 120 / 800.008 = 0.1500
C33_Witness ==
    /\ store # <<>>
    /\ Last(store).roadName # RefillLabel
    /\ Last(store).initialTankVolume = Gal(800) + 8
    /\ Last(store).chemicalMix[1].ozPerGal = [text |-> TRUE, val |-> 1500]

\* an append reaches the store (addDoc is called), or the deleteDoc calls of
\* a reset do
ClaimStoreRequest ==
    \/ Len(store') > Len(store)
    \/ nextId' # nextId
    \/ resetPc = "idle" /\ resetPc' = "deleting"

\* C34: no append and no delete request reaches the store while the identity
\* handshake is incomplete: auth not ready, store handle absent, or operator
\* id null.
C34_NoRequestBeforeHandshake ==
    [][ClaimStoreRequest => (isAuthReady /\ db /\ userId # NoUser)]_vars

\* the sign-in gave no operator id, and a refill asked for then was refused
C34_Witness ==
    /\ isAuthReady
    /\ userId = NoUser
    /\ gallonsToRefill > 0
    /\ status = "StillInitializing"
    /\ store = <<>>
    /\ nextId = 1

\* the rules of logApplication in the order of the claim, each with the
\* outcome reported when it is the first that fails; the not-ready check last
ClaimApplicationRules ==
    <<[fails |-> Trim(selectedRoad) = <<>>, outcome |-> "SelectRoad"],
      [fails |-> gallonsUsedOnRoad = NaN \/ gallonsUsedOnRoad <= 0,
       outcome |-> "InvalidGallons"],
      [fails |-> gallonsUsedOnRoad > gallonsLeft, outcome |-> "Exceeds"],
      [fails |-> chemicalMix = <<>>, outcome |-> "NoChemicals"],
      [fails |-> \/ Trim(weather) = <<>>
                 \/ temperature \in {0, NaN}
                 \/ windDirection = ""
                 \/ windSpeed \in {0, NaN},
       outcome |-> "IncompleteConditions"],
      [fails |-> ~isAuthReady \/ ~db \/ userId = NoUser, outcome |-> "StillInitializing"]>>

\* the rules of logRefill in the order of the claim
ClaimRefillRules ==
    <<[fails |-> gallonsToRefill = NaN \/ gallonsToRefill <= 0, outcome |-> "InvalidRefill"],
      [fails |-> ~isAuthReady \/ ~db \/ userId = NoUser, outcome |-> "StillInitializing"],
      [fails |-> ClaimActualAdded(gallonsToRefill) <= Eps, outcome |-> "TankFull"]>>

\* the outcome is that of the first rule that fails, and none of a rule's
\* when no rule fails
ClaimFirstFailure(rules, outcome) ==
    /\ \A j \in 1..Len(rules) :
        (rules[j].fails /\ \A i \in 1..(j - 1) : ~rules[i].fails) => outcome = rules[j].outcome
    /\ (\A j \in 1..Len(rules) : ~rules[j].fails)
        => \A j \in 1..Len(rules) : outcome # rules[j].outcome

\* C35: a logApplication call that violates several rules reports the first
\* that fails in the order EmptyRoad, NonPositiveVolume,
\* InsufficientInventory, EmptyChemicalMix, IncompleteConditions, and the
\* not-ready check comes after all of them; for logRefill the order is
\* NonPositiveVolume, not-ready, TankFull.
C35_FirstFailureReported ==
    [][/\ LogApplication => ClaimFirstFailure(ClaimApplicationRules, status')
       /\ HandleRefill => ClaimFirstFailure(ClaimRefillRules, status')]_vars

\* before the handshake, a call with no road, no volume and no chemicals was
\* answered with the first of the failing rules
C35_Witness ==
    /\ ~isAuthReady
    /\ status = "SelectRoad"
    /\ gallonsUsedOnRoad = 0
    /\ chemicalMix = <<>>

\* C36: a logApplication that appended its event clears the staged road and
\* the staged volume used, and nothing else that is staged: the staged mix,
\* the chemical being entered, the staged conditions, the refill amount and
\* the configured capacity are as before, so the mix serves the next
\* application.
C36_ClearsRoadAndVolumeOnly ==
    [][(LogApplication /\ Len(store') > Len(store))
        => /\ selectedRoad' = <<>>
           /\ gallonsUsedOnRoad' = 0
           /\ UNCHANGED <<chemicalMix, currentChemical, weather, temperature,
                          windDirection, windSpeed, gallonsToRefill, startingGallons>>]_vars

\* an application was logged and its mix and conditions are still staged
C36_Witness ==
    /\ status = "Logged"
    /\ selectedRoad = <<>>
    /\ gallonsUsedOnRoad = 0
    /\ chemicalMix # <<>>
    /\ chemicalMix = Last(store).chemicalMix
    /\ Trim(weather) = Last(store).weatherConditions.weather

\* the staged conditions are those stored in the event log
ClaimStagedFrom(log) ==
    /\ weather' = log.weatherConditions.weather
    /\ temperature' = log.weatherConditions.temperature
    /\ windDirection' = log.weatherConditions.windDirection
    /\ windSpeed' = log.weatherConditions.windSpeed

\* C37: a notification that delivers a list with an application that carries
\* conditions overwrites the staged conditions, whatever the operator had
\* typed, with those of the most recent such application; a notification
\* whose list has none leaves the staged conditions as they were.
C37_DeliveryOverwritesConditions ==
    [][Deliver =>
        IF ClaimAppliedIds' = {}
        THEN UNCHANGED <<weather, temperature, windDirection, windSpeed>>
        ELSE \E i \in 1..Len(logs') :
                /\ logs'[i].id \in ClaimAppliedIds'
                /\ \A x \in ClaimAppliedIds' : x <= logs'[i].id
                /\ ClaimStagedFrom(logs'[i])]_vars

\* a delivery replaced the weather the operator had typed by the stored one
C37_Witness ==
    /\ logs # <<>>
    /\ weather = logs[1].weatherConditions.weather
    /\ weather \notin WeatherInputs
    /\ inflight = <<>>

\* C38 as stated: adding a chemical with a blank name, or with a total
\* quantity that is no positive number, is rejected and leaves the staged mix
\* unchanged; otherwise one chemical is appended at the end of the staged mix,
\* with its ratio to the current capacity, and the chemicals staged before
\* keep their order and values.
C38_Original ==
    [][HandleChemicalAdd =>
        IF \/ Trim(currentChemical.name) = <<>>
           \/ currentChemical.totalOz = NaN
           \/ currentChemical.totalOz <= 0
        THEN UNCHANGED chemicalMix
        ELSE /\ Len(chemicalMix') = Len(chemicalMix) + 1
             /\ SubSeq(chemicalMix', 1, Len(chemicalMix)) = chemicalMix
             /\ Last(chemicalMix').name = currentChemical.name
             /\ Last(chemicalMix').totalOz = currentChemical.totalOz
             /\ ClaimRatio(Last(chemicalMix').ozPerGal, currentChemical.totalOz,
                           startingGallons)]_vars

\* a chemical whose name is white space is staged
C38_BlankNameStaged ==
    /\ chemicalMix # <<>>
    /\ Trim(chemicalMix[1].name) = <<>>
    /\ chemicalMix[1].totalOz > 0

============================================================================
